---- MODULE Spec2Model ----
(***************************************************************************)
(* Arps decline-curve fitting: the strategy cascade of fit_arps_curve, the *)
(* aggregate (type-curve) fit of fit_aggregate_arps_curve, and the         *)
(* six-test fit validator ARPSValidator.validate_fit.                      *)
(*                                                                         *)
(* Numbers.  Rates are integers in units of 1/Scale, so that bucket means  *)
(* and rolling means stay exact.  Declines (Dei, Def) are in percent,      *)
(* b-factors in tenths, times in hundredths of a month.                    *)
(***************************************************************************)
EXTENDS Integers, Sequences, FiniteSets, TLC

\* ------------------------------------------------------------------ bounds
\* Longest selected per-well series.
MaxLen == 8
\* Largest smoothing_factor tried.
SmoothMax == 2
\* Longest value list the optimizer may hand back.
MaxRet == 3
\* Most records in the production table given to the aggregate fit.
MaxRecs == 4

\* --------------------------------------------------------------- arithmetic
RECURSIVE Pow(_, _)
Pow(b, n) == IF n <= 0 THEN 1 ELSE b * Pow(b, n - 1)

RECURSIVE Gcd(_, _)
Gcd(a, b) == IF b = 0 THEN a ELSE Gcd(b, a % b)

Lcm(a, b) == (a * b) \div Gcd(a, b)

RECURSIVE LcmUpTo(_)
LcmUpTo(n) == IF n <= 1 THEN 1 ELSE Lcm(n, LcmUpTo(n - 1))

RECURSIVE SumRange(_, _, _)
SumRange(s, lo, hi) == IF lo > hi THEN 0 ELSE s[hi] + SumRange(s, lo, hi - 1)

Sum(s) == SumRange(s, 1, Len(s))

Max2(a, b) == IF a >= b THEN a ELSE b

Min2(a, b) == IF a <= b THEN a ELSE b

\* One rate unit: every mean of up to MaxRecs records, and every rolling mean
\* of up to SmoothMax passes over such means, is an integer.
Scale == LcmUpTo(MaxRecs) * Pow(6, SmoothMax)

\* ------------------------------------------------------------ program data
\* np.nan, the value of an undefined metric.
NaN == -999999

\* The columns of a result row, in order.
param_df_cols ==
    << "WellID", "Measure", "fit_months", "fit_type", "fit_segment", "StartDate",
       "StartMonth", "Q_guess", "Q3", "Dei", "b_factor", "R_squared", "RMSE", "MAE" >>

\* The position of a column in a row.
ColIndex(name) == CHOOSE i \in 1..Len(param_df_cols) : param_df_cols[i] = name

Col(row, name) == row[ColIndex(name)]

\* Below this many points only the degenerate result is produced.
MinPointsAny == 3
\* Below this many points the full-optimize fit is not tried.
MinPointsFull == 7

\* The phase presets handed to the fit: terminal decline (percent) and
\* abandonment rate (rate units) per phase.
Phases == {"OIL", "GAS"}

def_dict == [p \in Phases |-> IF p = "OIL" THEN 6 ELSE 8]

min_q_dict == [p \in Phases |-> IF p = "OIL" THEN 2 * Scale ELSE 3 * Scale]

\* Initial-decline presets; the first has no 'min' entry.
DeiDicts ==
    { [guess |-> 20, max |-> 99],
      [min |-> 1, guess |-> 5, max |-> 99] }

\* b-factor presets; the second has its bounds the wrong way round.
BDicts ==
    { [min |-> 5, guess |-> 9, max |-> 14],
      [min |-> 14, guess |-> 12, max |-> 5] }

\* Observed rates (before scaling); every record kept by the filter is > 0.
RateVals == {1, 3}

RECURSIVE SeqsUpTo(_, _)
SeqsUpTo(S, n) ==
    IF n = 0 THEN { <<>> }
    ELSE LET shorter == SeqsUpTo(S, n - 1)
         IN shorter \cup { Append(s, x) : s \in { t \in shorter : Len(t) = n - 1 }, x \in S }

\* --------------------------------------------------------------- the state
VARIABLES
    op,         \* the entry point this run executes: "well" or "agg"
    pc,         \* the position inside the entry point
    args,       \* the arguments of the call
    df,         \* the selected rows: a sequence of [Date, Value], in date order
    t_act,      \* the time array
    q_act,      \* the rate array (smoothed on the full-optimize path)
    Qi_guess,   \* the rate taken as Qi
    attempts,   \* the strategies run so far, in order
    calls,      \* the perform_curve_fit calls made so far, in order
    failed,     \* the strategies reported as failed ("Failed ... with error"), in order
    result,     \* the returned row (<<>> while none, and for None)
    aggregated, \* the aggregate frame of fit_aggregate_arps_curve
    validator,  \* the ARPSValidator instance: strict_mode, validation_results
    vin,        \* the arguments of validate_fit
    vout,       \* what validate_fit did: the report returned or the error raised
    well_list_df, \* the well list of a batch run: a sequence of [WellID, Measure]
    idx,        \* the number of list entries the batch loop has been through
    results_list \* main's results: the rows the batch loop has collected, in order

fitvars ==
    << args, df, t_act, q_act, Qi_guess, attempts, calls, failed, result, aggregated >>

valvars == << validator, vin, vout >>

batchvars == << well_list_df, idx, results_list >>

vars == << op, pc, fitvars, valvars, batchvars >>

\* ------------------------------------------------------- fit_arps_curve
\* dei_dict.get('min', def_dict[phase])
dict_coalesce(dei_dict, phase) ==
    IF "min" \in DOMAIN dei_dict THEN dei_dict.min ELSE def_dict[phase]

\* A centered 3-point rolling mean: the mean of the value and its neighbours.
RollingMean3_Centered(s) ==
    [i \in 1..Len(s) |->
        LET lo == IF i > 1 THEN i - 1 ELSE 1
            hi == IF i < Len(s) THEN i + 1 ELSE Len(s)
        IN SumRange(s, lo, hi) \div (hi - lo + 1)]

\* Series.rolling(window=3, min_periods=1).mean(): the mean of the current
\* and up to two preceding values.
RollingMean3(s) ==
    [i \in 1..Len(s) |->
        LET lo == IF i > 2 THEN i - 2 ELSE 1
        IN SumRange(s, lo, i) \div (i - lo + 1)]

\* smoothing_factor passes of the rolling mean (none when it is <= 0).
RECURSIVE Smooth(_, _)
Smooth(s, n) == IF n <= 0 THEN s ELSE Smooth(RollingMean3(s), n - 1)

\* The rank itself, counting from 1.
RankMin_FromOne(dates) ==
    [i \in 1..Len(dates) |-> Cardinality({j \in 1..Len(dates) : dates[j] < dates[i]}) + 1]

\* Date.rank(method='min') - 1: the number of rows with an earlier date.
RankMin(dates) ==
    [i \in 1..Len(dates) |-> Cardinality({j \in 1..Len(dates) : dates[j] < dates[i]})]

\* Date.rank(method='dense'): the number of distinct dates up to this one.
RankDense(dates) ==
    [i \in 1..Len(dates) |-> Cardinality({dates[j] : j \in {k \in 1..Len(dates) : dates[k] <= dates[i]}})]

SeqMin(s) == CHOOSE x \in {s[i] : i \in 1..Len(s)} : \A j \in 1..Len(s) : x <= s[j]

Dates(frame) == [i \in 1..Len(frame) |-> frame[i].Date]

Values(frame) == [i \in 1..Len(frame) |-> frame[i].Value]

\* What perform_curve_fit may do: raise, or hand back a list of values.
OptVals == {7, 12}

OptOutcomes ==
    { [raised |-> TRUE, x |-> <<>>] } \cup
    { [raised |-> FALSE, x |-> s] : s \in SeqsUpTo(OptVals, MaxRet) \ { <<>> } }

\* What calc_goodness_of_fit may hand back: (r_squared, rmse, mae).
GofVals == { <<95, 1, 1>>, <<50, 9, 7>> }

\* The locals of fit_arps_curve and fit_aggregate_arps_curve.
Dei_init == args.dei_dict.guess

Dei_min == dict_coalesce(args.dei_dict, args.phase)

Dei_max == args.dei_dict.max

b_guess == args.b_dict.guess

b_min == Min2(args.b_dict.min, args.b_dict.max)

b_max == Max2(args.b_dict.min, args.b_dict.max)

arr_length == Len(t_act)

start_date == SeqMin(Dates(df))

start_month == SeqMin(RankDense(Dates(df)))

\* The degenerate branch chosen on the point count alone.
UseAutoFit3_CountOnly(qi, n, phase) == n < MinPointsAny

\* The first branch of the strategy choice: the degenerate result.
UseAutoFit3(qi, n, phase) == (qi < min_q_dict[phase]) \/ (n < MinPointsAny)

\* The single-parameter branch with its limit one point short.
UseAutoFit2_OffByOne(n) == n < MinPointsFull - 1

\* The second branch: the single-parameter fit.
UseAutoFit2(n) == n < MinPointsFull

\* The full-optimize call with its initial guess in the order b, Dei.
CurveFitCall1_GuessSwapped ==
    [t |-> t_act, q |-> q_act,
     initial_guess |-> << args.b_dict.guess, args.dei_dict.guess >>,
     bounds |-> << << dict_coalesce(args.dei_dict, args.phase),
                      Min2(args.b_dict.min, args.b_dict.max) >>,
                   << args.dei_dict.max, Max2(args.b_dict.min, args.b_dict.max) >> >>,
     config |-> [optimize |-> << "Dei", "b" >>,
                 fixed |-> [Qi |-> Qi_guess, Def |-> def_dict[args.phase]]]]

\* perform_curve_fit's arguments in auto_fit1 (and in the aggregate fit):
\* Dei and b are optimized, Qi and Def are fixed.
config_optimize_dei_b ==
    [optimize |-> << "Dei", "b" >>,
     fixed |-> [Qi |-> Qi_guess, Def |-> def_dict[args.phase]]]

CurveFitCall1 ==
    [t |-> t_act, q |-> q_act,
     initial_guess |-> << Dei_init, b_guess >>,
     bounds |-> << << Dei_min, b_min >>, << Dei_max, b_max >> >>,
     config |-> config_optimize_dei_b]

\* perform_curve_fit's arguments in auto_fit2: only Dei is optimized.
config_optimize_dei ==
    [optimize |-> << "Dei" >>,
     fixed |-> [Qi |-> Qi_guess, b |-> b_guess, Def |-> def_dict[args.phase]]]

CurveFitCall2 ==
    [t |-> t_act, q |-> q_act,
     initial_guess |-> << Dei_init >>,
     bounds |-> << Dei_min, Dei_max >>,
     config |-> config_optimize_dei]

\* "Dei_fit, b_fit = optimized_params" needs exactly two values.
Unpacks2(out) == ~out.raised /\ Len(out.x) = 2

\* "Dei_fit = optimized_params[0]" needs at least one value.
Unpacks1(out) == ~out.raised /\ Len(out.x) >= 1

\* The auto_fit1 row with Qi taken from the optimizer's values.
auto_fit1_row_QiFromOptimizer(x, gof) ==
    << args.property_id, args.phase, arr_length, "auto_fit_1", args.fit_segment,
       start_date, start_month, Qi_guess, x[1], x[1], x[2],
       gof[1], gof[2], gof[3] >>

\* The auto_fit2 row with its metrics left undefined.
auto_fit2_row_NoMetrics(x, gof) ==
    << args.property_id, args.phase, arr_length, "auto_fit_2", args.fit_segment,
       start_date, start_month, Qi_guess, Qi_guess, x[1], b_guess, NaN, NaN, NaN >>

\* The rows returned by the three strategies.
auto_fit1_row(x, gof) ==
    << args.property_id, args.phase, arr_length, "auto_fit_1", args.fit_segment,
       start_date, start_month, Qi_guess, Qi_guess, x[1], x[2],
       gof[1], gof[2], gof[3] >>

auto_fit2_row(x, gof) ==
    << args.property_id, args.phase, arr_length, "auto_fit_2", args.fit_segment,
       start_date, start_month, Qi_guess, Qi_guess, x[1], b_guess,
       gof[1], gof[2], gof[3] >>

auto_fit3_row ==
    << args.property_id, args.phase, arr_length, "auto_fit_3", args.fit_segment,
       start_date, start_month, Qi_guess, Qi_guess,
       Max2(Dei_init, def_dict[args.phase]), b_guess, NaN, NaN, NaN >>

\* No validator is under test in a fitting run.
NoValidator == [strict_mode |-> FALSE, validation_results |-> <<>>]

NoVin ==
    [t_act |-> <<>>, q_act |-> <<>>, q_pred |-> <<>>, qi_fit |-> 0, dei_fit |-> 0,
     b_fit |-> 0, def_val |-> 0]

NoVout ==
    [kind |-> "none", passed |-> <<>>, results |-> <<>>, report |-> <<>>, carried |-> <<>>]

ValIdle == validator = NoValidator /\ vin = NoVin /\ vout = NoVout

\* No batch is running.
BatchIdle == well_list_df = <<>> /\ idx = 0 /\ results_list = <<>>

\* A frame that was not built (None).
NoFrame ==
    [present |-> FALSE, months_from_start |-> <<>>, avg_production |-> <<>>,
     well_count |-> <<>>, predicted |-> FALSE]

InitWell ==
    /\ op = "well"
    /\ pc = "start"
    /\ \E phase \in Phases, dei \in DeiDicts, b \in BDicts, sf \in 0..SmoothMax :
         args = [property_id |-> "W1", phase |-> phase, b_dict |-> b, dei_dict |-> dei,
                 smoothing_factor |-> sf, fit_segment |-> "first"]
    /\ \E q \in SeqsUpTo(RateVals, MaxLen) :
         df = [i \in 1..Len(q) |-> [Date |-> i - 1, Value |-> q[i] * Scale]]
    /\ t_act = <<>>
    /\ q_act = <<>>
    /\ Qi_guess = 0
    /\ attempts = <<>>
    /\ calls = <<>>
    /\ failed = <<>>
    /\ result = <<>>
    /\ aggregated = NoFrame
    /\ ValIdle
    /\ BatchIdle

\* The most rows of a well whose records may share a date.
MaxRows == 4

\* Date columns after sort_values(by='Date'): each row on the day of the row
\* before it or on the next one.
RECURSIVE SortedDates(_)
SortedDates(n) ==
    IF n = 0 THEN { <<>> }
    ELSE IF n = 1 THEN { << 0 >> }
    ELSE { Append(d, d[n - 1] + step) : d \in SortedDates(n - 1), step \in { 0, 1 } }

\* One well's records where a date may occur more than once.
InitWellDates ==
    /\ op = "well"
    /\ pc = "start"
    /\ \E phase \in Phases, dei \in DeiDicts, b \in BDicts, sf \in 0..SmoothMax :
         args = [property_id |-> "W1", phase |-> phase, b_dict |-> b, dei_dict |-> dei,
                 smoothing_factor |-> sf, fit_segment |-> "first"]
    /\ \E q \in SeqsUpTo(RateVals, MaxRows) : \E d \in SortedDates(Len(q)) :
         df = [i \in 1..Len(q) |-> [Date |-> d[i], Value |-> q[i] * Scale]]
    /\ t_act = <<>>
    /\ q_act = <<>>
    /\ Qi_guess = 0
    /\ attempts = <<>>
    /\ calls = <<>>
    /\ failed = <<>>
    /\ result = <<>>
    /\ aggregated = NoFrame
    /\ ValIdle
    /\ BatchIdle

\* auto_fit1's except clause going straight to the degenerate result.
AfterFit1Raises_SkipsFit2 == "auto_fit3"

\* auto_fit2's except clause trying auto_fit2 again.
AfterFit2Raises_Retries == "auto_fit2"

\* The except clauses: what runs after auto_fit1 raised, and after auto_fit2
\* raised.
AfterFit1Raises == "auto_fit2"

AfterFit2Raises == "auto_fit3"

\* Lines 184-202 and the choice at 280-298: the arrays and Qi of the selected
\* rows, then the strategy; the full-optimize branch smooths the rates first.
SelectStrategy ==
    /\ op = "well"
    /\ pc = "start"
    /\ IF Len(df) = 0
       THEN \* Qi_guess = q_act[0] raises IndexError
            /\ pc' = "raised"
            /\ UNCHANGED << t_act, q_act, Qi_guess >>
       ELSE LET q == Values(df)
                smoothed == Smooth(q, args.smoothing_factor)
            IN /\ t_act' = RankMin(Dates(df))
               /\ IF UseAutoFit3(q[1], Len(q), args.phase)
                  THEN q_act' = q /\ Qi_guess' = q[1] /\ pc' = "auto_fit3"
                  ELSE IF UseAutoFit2(Len(q))
                  THEN q_act' = q /\ Qi_guess' = q[1] /\ pc' = "auto_fit2"
                  ELSE q_act' = smoothed /\ Qi_guess' = smoothed[1] /\ pc' = "auto_fit1"
    /\ UNCHANGED << op, args, df, attempts, calls, failed, result, aggregated, valvars, batchvars >>

\* auto_fit3: the degenerate row, with no optimizer call.
AutoFit3 ==
    /\ op = "well"
    /\ pc = "auto_fit3"
    /\ attempts' = Append(attempts, "auto_fit_3")
    /\ result' = auto_fit3_row
    /\ pc' = "done"
    /\ UNCHANGED << op, args, df, t_act, q_act, Qi_guess, calls, failed, aggregated, valvars, batchvars >>

\* ------------------------------------------- process_well_csv, no data
\* The 'no_data' row one field short.
no_data_row_Short(wellid, measure) ==
    << wellid, measure, 0, "no_data", NaN, NaN, NaN, NaN, NaN, NaN, NaN, NaN, NaN >>

\* The row process_well_csv returns for a well with no production records.
no_data_row(wellid, measure) ==
    << wellid, measure, 0, "no_data", NaN, NaN, NaN, NaN, NaN, NaN, NaN, NaN, NaN, NaN >>

\* process_well_csv called for a well/measure of which the loader has no
\* record.
InitNoData ==
    /\ op = "csv"
    /\ pc = "start"
    /\ \E phase \in Phases, dei \in DeiDicts, b \in BDicts :
         args = [property_id |-> "W1", phase |-> phase, b_dict |-> b, dei_dict |-> dei,
                 smoothing_factor |-> SmoothMax, fit_segment |-> "first"]
    /\ df = <<>>
    /\ t_act = <<>>
    /\ q_act = <<>>
    /\ Qi_guess = 0
    /\ attempts = <<>>
    /\ calls = <<>>
    /\ failed = <<>>
    /\ result = <<>>
    /\ aggregated = NoFrame
    /\ ValIdle
    /\ BatchIdle

\* Lines 488-499: prod_df is empty, the 'no_data' row is returned.
ProcessWellNoData ==
    /\ op = "csv"
    /\ pc = "start"
    /\ df = <<>>
    /\ result' = no_data_row(args.property_id, args.phase)
    /\ pc' = "done"
    /\ UNCHANGED << op, args, df, t_act, q_act, Qi_guess, attempts, calls, failed,
                    aggregated, valvars, batchvars >>

\* ------------------------------------------- fit_aggregate_arps_curve
\* The production table: records of two wells on a few days (days since an
\* arbitrary origin), one record with no production and one of another measure.
Wells == {1, 2}

AggDays == {0, 30, 31, 61}

AggRates == {2, 4}

AggRecords ==
    { [WellID |-> w, Measure |-> "OIL", Date |-> d, Value |-> v * Scale] :
        w \in Wells, d \in AggDays, v \in AggRates }
    \cup { [WellID |-> 1, Measure |-> "OIL", Date |-> 0, Value |-> 0],
           [WellID |-> 2, Measure |-> "GAS", Date |-> 0, Value |-> 2 * Scale] }

\* 30.42 days per month, times 100.
DaysPerMonthX100 == 3042

\* Fewer averaged buckets than this: no fit.
MinBuckets == 3

\* ((Date - min_date).dt.days / 30.42).astype(int)
MonthsFromStart(days) == (days * 100) \div DaysPerMonthX100

\* The filter keeping the measure's rows without production.
AggFilter_KeepsZeroRates(rows, measure) == { r \in rows : r.Measure = measure }

\* The rows of the measure with production.
AggFilter(rows, measure) == { r \in rows : r.Value > 0 /\ r.Measure = measure }

MinDate(rows) == CHOOSE d \in { r.Date : r \in rows } : \A r \in rows : d <= r.Date

RECURSIVE SortedSeq(_)
SortedSeq(S) ==
    IF S = {} THEN <<>>
    ELSE LET m == CHOOSE x \in S : \A y \in S : x <= y
         IN << m >> \o SortedSeq(S \ {m})

RECURSIVE SumValue(_)
SumValue(rows) ==
    IF rows = {} THEN 0
    ELSE LET r == CHOOSE x \in rows : TRUE
         IN r.Value + SumValue(rows \ {r})

\* groupby('months_from_start').agg(Value: mean, WellID: count), in key order.
Aggregate(rows) ==
    LET min_date == MinDate(rows)
        bucket(m) == { r \in rows : MonthsFromStart(r.Date - min_date) = m }
        keys == SortedSeq({ MonthsFromStart(r.Date - min_date) : r \in rows })
    IN [present |-> TRUE,
        months_from_start |-> keys,
        avg_production |-> [i \in 1..Len(keys) |->
                              SumValue(bucket(keys[i])) \div Cardinality(bucket(keys[i]))],
        well_count |-> [i \in 1..Len(keys) |-> Cardinality(bucket(keys[i]))],
        predicted |-> FALSE]

aggregate_row(x, gof) ==
    << "AGGREGATE", args.phase, arr_length, "aggregate_fit", "all",
       MinDate(AggFilter(df, args.phase)), 0, Qi_guess, Qi_guess, x[1], x[2],
       gof[1], gof[2], gof[3] >>

\* The except clause handing back a degenerate row instead of None.
aggregate_failure_result_Degenerate ==
    << "AGGREGATE", args.phase, arr_length, "auto_fit_3", "all",
       MinDate(AggFilter(df, args.phase)), 0, Qi_guess, Qi_guess,
       Max2(Dei_init, def_dict[args.phase]), b_guess, NaN, NaN, NaN >>

\* "return None, aggregated" in the except clause: no row.
aggregate_failure_result == <<>>

InitAgg ==
    /\ op = "agg"
    /\ pc = "start"
    /\ \E dei \in DeiDicts, sf \in 0..SmoothMax :
         args = [property_id |-> "AGGREGATE", phase |-> "OIL",
                 b_dict |-> [min |-> 5, guess |-> 9, max |-> 14], dei_dict |-> dei,
                 smoothing_factor |-> sf, fit_segment |-> "all"]
    /\ df \in { S \in SUBSET AggRecords : Cardinality(S) <= MaxRecs }
    /\ t_act = <<>>
    /\ q_act = <<>>
    /\ Qi_guess = 0
    /\ attempts = <<>>
    /\ calls = <<>>
    /\ failed = <<>>
    /\ result = <<>>
    /\ aggregated = NoFrame
    /\ ValIdle
    /\ BatchIdle

\* Lines 352-399: filter, bucket, average; (None, None) for no rows,
\* (None, aggregated) for fewer than 3 buckets; else smooth and fix Qi.
AggregateBuild ==
    /\ op = "agg"
    /\ pc = "start"
    /\ LET rows == AggFilter(df, args.phase)
       IN IF rows = {}
          THEN /\ pc' = "done"
               /\ UNCHANGED << aggregated, t_act, q_act, Qi_guess >>
          ELSE LET agg == Aggregate(rows)
                   smoothed == Smooth(agg.avg_production, args.smoothing_factor)
               IN /\ aggregated' = agg
                  /\ t_act' = agg.months_from_start
                  /\ IF Len(agg.months_from_start) < MinBuckets
                     THEN /\ pc' = "done"
                          /\ q_act' = agg.avg_production
                          /\ UNCHANGED Qi_guess
                     ELSE /\ pc' = "agg_fit"
                          /\ q_act' = smoothed
                          /\ Qi_guess' = smoothed[1]
    /\ UNCHANGED << op, args, df, attempts, calls, failed, result, valvars, batchvars >>

\* Lines 401-464: the one fit attempt; the row and the predictions on success,
\* (None, aggregated) when anything in the try raises.
AggregateFit ==
    /\ op = "agg"
    /\ pc = "agg_fit"
    /\ attempts' = Append(attempts, "aggregate_fit")
    /\ calls' = Append(calls, CurveFitCall1)
    /\ pc' = "done"
    /\ \E out \in OptOutcomes :
         IF Unpacks2(out)
         THEN \E gof \in GofVals :
                /\ result' = aggregate_row(out.x, gof)
                /\ aggregated' = [aggregated EXCEPT !.predicted = TRUE]
                /\ UNCHANGED failed
         ELSE /\ result' = aggregate_failure_result
              /\ failed' = Append(failed, "aggregate fit")
              /\ UNCHANGED aggregated
    /\ UNCHANGED << op, args, df, t_act, q_act, Qi_guess, valvars, batchvars >>

\* ------------------------------------------- ARPSValidator.validate_fit
\* Longest rate arrays handed to the validator.
ValLen == 3

Abs(x) == IF x < 0 THEN -x ELSE x

\* Comparisons of an exact fraction [n, d] (d > 0) with a whole number.
FracLt(f, k) == f.n < k * f.d

FracGt(f, k) == f.n > k * f.d

TestNames ==
    { "time_starts_at_zero", "first_point_alignment", "decline_trend",
      "goodness_of_fit", "parameter_reasonableness", "residual_analysis" }

\* The results dict as validate_fit creates it: no test entry is present yet.
NewResults ==
    [tests |-> [n \in TestNames |-> [present |-> FALSE, pass |-> FALSE]],
     overall_pass |-> TRUE, warnings |-> <<>>, errors |-> <<>>]

\* results['tests'][name] = flag (for a dict entry, its 'pass' flag)
SetTest(results, name, flag) ==
    [results EXCEPT !.tests[name] = [present |-> TRUE, pass |-> flag]]

AddWarning(results, msg) == [results EXCEPT !.warnings = Append(@, msg)]

AddError(results, msg) == [results EXCEPT !.errors = Append(@, msg)]

\* tolerance = 0.01 month, in hundredths
TimeTolerance == 1
\* first point: the 'pass' flag and the failure limit, percent
FirstPointFailPct == 15
\* first point: the "not ideal" limit, percent
FirstPointWarnPct == 10
\* decline trend: a rise by more than 5 percent, q[i] > q[i-1] * 1.05
IncreaseLimitPct == 105
\* goodness of fit: the pass limit, R2 in percent
R2PassPct == 70
\* goodness of fit: the "good fit" limit, R2 in percent
R2GoodPct == 85
\* parameters: the largest Dei, percent
DeiMaxPct == 100
\* parameters: the largest b, tenths
BMaxTenths == 20

\* TEST 1
validate_time_zero(t, results) ==
    LET name == "time_starts_at_zero"
    IN IF Len(t) = 0
       THEN [results |-> AddError(SetTest(results, name, FALSE), "Time array is empty"),
             ret |-> FALSE]
       ELSE IF Abs(t[1]) > TimeTolerance
       THEN [results |-> AddError(SetTest(results, name, FALSE),
                                  "Time array does not start at 0"),
             ret |-> FALSE]
       ELSE [results |-> SetTest(results, name, TRUE), ret |-> TRUE]

\* error_pct = abs(q_pred_0 - q_act_0) / q_act_0 * 100 if q_act_0 > 0 else 100
ErrorPct(q_act_0, q_pred_0) ==
    IF q_act_0 > 0
    THEN [n |-> 100 * Abs(q_pred_0 - q_act_0), d |-> q_act_0]
    ELSE [n |-> 100, d |-> 1]

\* TEST 2 recording a mismatch among the errors.
validate_first_point_MismatchAsError(q, q_pred, results) ==
    LET name == "first_point_alignment"
    IN IF Len(q_pred) = 0 \/ Len(q) = 0
       THEN [results |-> AddError(SetTest(results, name, FALSE), "Empty rate arrays"),
             ret |-> FALSE]
       ELSE LET error_pct == ErrorPct(q[1], q_pred[1])
                recorded == SetTest(results, name, FracLt(error_pct, FirstPointFailPct))
            IN IF FracGt(error_pct, FirstPointFailPct)
               THEN [results |-> AddError(recorded, "First point mismatch"),
                     ret |-> FALSE]
               ELSE IF FracGt(error_pct, FirstPointWarnPct)
               THEN [results |-> AddWarning(recorded,
                                   "First point alignment acceptable but not ideal"),
                     ret |-> TRUE]
               ELSE [results |-> recorded, ret |-> TRUE]

\* TEST 2
validate_first_point(q, q_pred, results) ==
    LET name == "first_point_alignment"
    IN IF Len(q_pred) = 0 \/ Len(q) = 0
       THEN [results |-> AddError(SetTest(results, name, FALSE), "Empty rate arrays"),
             ret |-> FALSE]
       ELSE LET error_pct == ErrorPct(q[1], q_pred[1])
                recorded == SetTest(results, name, FracLt(error_pct, FirstPointFailPct))
            IN IF FracGt(error_pct, FirstPointFailPct)
               THEN [results |-> AddWarning(recorded, "First point mismatch"),
                     ret |-> FALSE]
               ELSE IF FracGt(error_pct, FirstPointWarnPct)
               THEN [results |-> AddWarning(recorded,
                                   "First point alignment acceptable but not ideal"),
                     ret |-> TRUE]
               ELSE [results |-> recorded, ret |-> TRUE]

\* The indices i with q_pred[i] > q_pred[i-1] * 1.05.
Increases(q_pred) ==
    { i \in 2..Len(q_pred) : 100 * q_pred[i] > IncreaseLimitPct * q_pred[i - 1] }

\* TEST 3
validate_decline_trend(q_pred, results) ==
    LET name == "decline_trend"
    IN IF Len(q_pred) < 2
       THEN [results |-> SetTest(results, name, TRUE), ret |-> TRUE]
       ELSE LET recorded == SetTest(results, name, Increases(q_pred) = {})
            IN IF Increases(q_pred) # {}
               THEN [results |-> AddWarning(recorded, "Predicted rates increased"),
                     ret |-> FALSE]
               ELSE [results |-> recorded, ret |-> TRUE]

Residuals(q, q_pred) == [i \in 1..Len(q) |-> q[i] - q_pred[i]]

Squares(s) == [i \in 1..Len(s) |-> s[i] * s[i]]

\* ss_res and ss_tot, both times len(q_act):
\* n * sum((q - mean)^2) = n * sum(q^2) - sum(q)^2.
NSsRes(q, q_pred) == Len(q) * Sum(Squares(Residuals(q, q_pred)))

NSsTot(q) == Len(q) * Sum(Squares(q)) - Sum(q) * Sum(q)

\* r2 = 1 - (ss_res / ss_tot) if ss_tot > 0 else 0, in percent
R2Pct(q, q_pred) ==
    IF NSsTot(q) > 0
    THEN [n |-> 100 * (NSsTot(q) - NSsRes(q, q_pred)), d |-> NSsTot(q)]
    ELSE [n |-> 0, d |-> 1]

\* TEST 4 never failing the fit, only warning.
validate_goodness_of_fit_NeverFails(q, q_pred, results) ==
    LET name == "goodness_of_fit"
        r2 == R2Pct(q, q_pred)
        recorded == SetTest(results, name, FracGt(r2, R2PassPct))
    IN IF FracLt(r2, R2GoodPct)
       THEN [results |-> AddWarning(recorded, "Acceptable fit"), ret |-> TRUE]
       ELSE [results |-> recorded, ret |-> TRUE]

\* TEST 4
validate_goodness_of_fit(q, q_pred, results) ==
    LET name == "goodness_of_fit"
        r2 == R2Pct(q, q_pred)
        recorded == SetTest(results, name, FracGt(r2, R2PassPct))
    IN IF FracLt(r2, R2PassPct)
       THEN [results |-> AddWarning(recorded, "Poor fit"), ret |-> FALSE]
       ELSE IF FracLt(r2, R2GoodPct)
       THEN [results |-> AddWarning(recorded, "Acceptable fit"), ret |-> TRUE]
       ELSE [results |-> recorded, ret |-> TRUE]

\* The issues of TEST 5, in the order they are found.
ParameterIssues(qi_fit, dei_fit, b_fit, def_val) ==
    (IF qi_fit <= 0 THEN << "Qi must be positive" >> ELSE <<>>)
    \o (IF dei_fit < 0 \/ dei_fit > DeiMaxPct
        THEN << "Dei outside valid range [0, 1]" >> ELSE <<>>)
    \o (IF b_fit < 0 \/ b_fit > BMaxTenths
        THEN << "b outside typical range [0, 2]" >> ELSE <<>>)
    \o (IF dei_fit < def_val THEN << "Dei < Def" >> ELSE <<>>)

\* TEST 5
validate_parameters(qi_fit, dei_fit, b_fit, def_val, results) ==
    LET name == "parameter_reasonableness"
        issues == ParameterIssues(qi_fit, dei_fit, b_fit, def_val)
        recorded == SetTest(results, name, issues = <<>>)
    IN IF issues # <<>>
       THEN [results |-> [recorded EXCEPT !.warnings = @ \o issues], ret |-> FALSE]
       ELSE [results |-> recorded, ret |-> TRUE]

\* has_bias = abs(mean_residual) > std_residual * 0.5; with S the sum and Q
\* the sum of squares of the n residuals this is 5 * S^2 > n * Q.
HasBias(q, q_pred) ==
    LET r == Residuals(q, q_pred)
    IN 5 * Sum(r) * Sum(r) > Len(r) * Sum(Squares(r))

\* TEST 6; np.max of an empty array raises ValueError.
validate_residuals(q, q_pred, results) ==
    LET name == "residual_analysis"
    IN IF Len(q) = 0
       THEN [results |-> results, ret |-> FALSE, raises |-> TRUE]
       ELSE LET recorded == SetTest(results, name, ~HasBias(q, q_pred))
            IN IF HasBias(q, q_pred)
               THEN [results |-> AddWarning(recorded, "Systematic bias detected"),
                     ret |-> FALSE, raises |-> FALSE]
               ELSE [results |-> recorded, ret |-> TRUE, raises |-> FALSE]

\* all([test1_pass, ..., test6_pass])
OverallPass(p1, p2, p3, p4, p5, p6) == p1 /\ p2 /\ p3 /\ p4 /\ p5 /\ p6

\* The error carrying the warnings as well.
ErrorDetails_WithWarnings(results) == results.errors \o results.warnings

\* The messages the raised ARPSValidationError carries after its headline.
ErrorDetails(results) == results.errors

\* validate_fit keeping the results before it raises in strict mode.
validate_fit_StoresBeforeRaise(self, a) ==
    LET r1 == validate_time_zero(a.t_act, NewResults)
        r2 == validate_first_point(a.q_act, a.q_pred, r1.results)
        r3 == validate_decline_trend(a.q_pred, r2.results)
        r4 == validate_goodness_of_fit(a.q_act, a.q_pred, r3.results)
        r5 == validate_parameters(a.qi_fit, a.dei_fit, a.b_fit, a.def_val, r4.results)
        r6 == validate_residuals(a.q_act, a.q_pred, r5.results)
        passed == << r1.ret, r2.ret, r3.ret, r4.ret, r5.ret, r6.ret >>
        results == [r6.results EXCEPT !.overall_pass =
                       OverallPass(r1.ret, r2.ret, r3.ret, r4.ret, r5.ret, r6.ret)]
    IN IF r6.raises
       THEN [kind |-> "ValueError", passed |-> <<>>, results |-> <<>>, report |-> <<>>,
             carried |-> <<>>, validation_results |-> self.validation_results]
       ELSE IF self.strict_mode /\ ~results.overall_pass
       THEN [kind |-> "ARPSValidationError", passed |-> passed, results |-> << results >>,
             report |-> <<>>, carried |-> ErrorDetails(results),
             validation_results |-> << results >>]
       ELSE [kind |-> "returned", passed |-> passed, results |-> << results >>,
             report |-> << results >>, carried |-> <<>>,
             validation_results |-> << results >>]

\* validate_fit: what it does (kind), test1_pass..test6_pass and its local
\* results dict when the six tests completed, the report it returns, the
\* messages of the error it raises, and the validation_results it leaves
\* behind.
validate_fit(self, a) ==
    LET r1 == validate_time_zero(a.t_act, NewResults)
        r2 == validate_first_point(a.q_act, a.q_pred, r1.results)
        r3 == validate_decline_trend(a.q_pred, r2.results)
        r4 == validate_goodness_of_fit(a.q_act, a.q_pred, r3.results)
        r5 == validate_parameters(a.qi_fit, a.dei_fit, a.b_fit, a.def_val, r4.results)
        r6 == validate_residuals(a.q_act, a.q_pred, r5.results)
        passed == << r1.ret, r2.ret, r3.ret, r4.ret, r5.ret, r6.ret >>
        results == [r6.results EXCEPT !.overall_pass =
                       OverallPass(r1.ret, r2.ret, r3.ret, r4.ret, r5.ret, r6.ret)]
    IN IF r6.raises
       THEN [kind |-> "ValueError", passed |-> <<>>, results |-> <<>>, report |-> <<>>,
             carried |-> <<>>, validation_results |-> self.validation_results]
       ELSE IF self.strict_mode /\ ~results.overall_pass
       THEN [kind |-> "ARPSValidationError", passed |-> passed, results |-> << results >>,
             report |-> <<>>, carried |-> ErrorDetails(results),
             validation_results |-> self.validation_results]
       ELSE [kind |-> "returned", passed |-> passed, results |-> << results >>,
             report |-> << results >>, carried |-> <<>>,
             validation_results |-> << results >>]

\* ------------------------------------------ the validator inside the fit
\* The validator called in strict mode.
FitStrictMode_Strict == TRUE

\* strict_mode=False in the validate_arps_fit calls of auto_fit1 and auto_fit2.
FitStrictMode == FALSE

RECURSIVE SeqGcd(_)
SeqGcd(s) == IF Len(s) = 0 THEN 0 ELSE Gcd(s[1], SeqGcd(Tail(s)))

\* The validator reads the rates only through ratios (error percent, increase
\* ratio, R2, bias), so the two arrays are handed over in their largest
\* common unit, which keeps the sums of squares small.
RateUnit(q, q_pred) == Max2(1, SeqGcd(q \o q_pred))

\* varps_decline(1, 1, Qi, Dei, Def, b, t, 0, 0)[3]: the rate at each time of
\* t. Whatever Dei, Def and b, the rate at time 0 is Qi; after that the curve
\* is one of two: the one through the observed points (k, observed[k + 1]),
\* or the one staying at Qi.
varps_decline(Qi, t, observed, shape) ==
    [i \in 1..Len(t) |->
        IF t[i] = 0 \/ shape = "flat" THEN Qi
        ELSE observed[Min2(t[i] + 1, Len(observed))]]

\* The predicted rates a fit may get for its fixed Qi and its time array.
QPredOutcomes ==
    { varps_decline(Qi_guess, t_act, q_act, shape) : shape \in { "through", "flat" } }

\* The arguments of validate_arps_fit: times in hundredths of a month.
FitValidatorInput(q_pred, qi_fit, dei_fit, b_fit) ==
    LET u == RateUnit(q_act, q_pred)
    IN [t_act |-> [i \in 1..Len(t_act) |-> 100 * t_act[i]],
        q_act |-> [i \in 1..Len(q_act) |-> q_act[i] \div u],
        q_pred |-> [i \in 1..Len(q_pred) |-> q_pred[i] \div u],
        qi_fit |-> qi_fit \div u, dei_fit |-> dei_fit, b_fit |-> b_fit,
        def_val |-> def_dict[args.phase]]

\* validate_arps_fit: a new ARPSValidator, and one validate_fit call on it.
validate_arps_fit(a, strict_mode) ==
    LET self == [strict_mode |-> strict_mode, validation_results |-> <<>>]
        o == validate_fit(self, a)
    IN [vin |-> a,
        validator |-> [self EXCEPT !.validation_results = o.validation_results],
        vout |-> [kind |-> o.kind, passed |-> o.passed, results |-> o.results,
                  report |-> o.report, carried |-> o.carried]]

\* The validations auto_fit1 and auto_fit2 may see for fitted Dei and b: one
\* for each curve varps_decline may hand back.
FitValidations(dei_fit, b_fit) ==
    { validate_arps_fit(FitValidatorInput(q_pred, Qi_guess, dei_fit, b_fit), FitStrictMode) :
        q_pred \in QPredOutcomes }

\* auto_fit1 inside its try: the fit is validated, then the row is returned;
\* auto_fit2 is next when anything in it raises.
AutoFit1 ==
    /\ op = "well"
    /\ pc = "auto_fit1"
    /\ attempts' = Append(attempts, "auto_fit_1")
    /\ calls' = Append(calls, CurveFitCall1)
    /\ \E out \in OptOutcomes :
         IF Unpacks2(out)
         THEN \E v \in FitValidations(out.x[1], out.x[2]) :
                /\ vin' = v.vin
                /\ validator' = v.validator
                /\ vout' = v.vout
                /\ IF v.vout.kind = "returned"
                   THEN /\ \E gof \in GofVals : result' = auto_fit1_row(out.x, gof)
                        /\ pc' = "done"
                        /\ UNCHANGED failed
                   ELSE /\ pc' = AfterFit1Raises
                        /\ failed' = Append(failed, "auto_fit1")
                        /\ UNCHANGED result
         ELSE /\ pc' = AfterFit1Raises
              /\ failed' = Append(failed, "auto_fit1")
              /\ UNCHANGED << result, valvars >>
    /\ UNCHANGED << op, args, df, t_act, q_act, Qi_guess, aggregated, batchvars >>

\* auto_fit2 inside its try: the fit is validated, then the row is returned;
\* auto_fit3 is next when anything in it raises.
AutoFit2 ==
    /\ op = "well"
    /\ pc = "auto_fit2"
    /\ attempts' = Append(attempts, "auto_fit_2")
    /\ calls' = Append(calls, CurveFitCall2)
    /\ \E out \in OptOutcomes :
         IF Unpacks1(out)
         THEN \E v \in FitValidations(out.x[1], b_guess) :
                /\ vin' = v.vin
                /\ validator' = v.validator
                /\ vout' = v.vout
                /\ IF v.vout.kind = "returned"
                   THEN /\ \E gof \in GofVals : result' = auto_fit2_row(out.x, gof)
                        /\ pc' = "done"
                        /\ UNCHANGED failed
                   ELSE /\ pc' = AfterFit2Raises
                        /\ failed' = Append(failed, "auto_fit2")
                        /\ UNCHANGED result
         ELSE /\ pc' = AfterFit2Raises
              /\ failed' = Append(failed, "auto_fit2")
              /\ UNCHANGED << result, valvars >>
    /\ UNCHANGED << op, args, df, t_act, q_act, Qi_guess, aggregated, batchvars >>

\* get_summary_stats: None (<<>>) while no report is stored, else the summary
\* of the stored report: overall_pass and the numbers of warnings and errors
\* (the metrics copied from the test entries are not kept in this model).
get_summary_stats(self) ==
    IF self.validation_results = <<>>
    THEN <<>>
    ELSE << [overall_pass |-> self.validation_results[1].overall_pass,
             num_warnings |-> Len(self.validation_results[1].warnings),
             num_errors |-> Len(self.validation_results[1].errors)] >>

\* The validator's inputs.  Only t_act[0] is read, so one entry stands for
\* the time array; the rate arrays have equal lengths, as numpy requires.
ValTimes == { <<>>, << 0 >>, << 1 >>, << 2 >> }

QActVals == {10, 20}

QPredVals == {10, 17, 20, 22, 23}

ValParams ==
    { [qi_fit |-> 20, dei_fit |-> 15, b_fit |-> 9, def_val |-> 6],
      [qi_fit |-> 0, dei_fit |-> -5, b_fit |-> 25, def_val |-> 6] }

FitIdle ==
    /\ args = [property_id |-> "W1", phase |-> "OIL",
               b_dict |-> [min |-> 5, guess |-> 9, max |-> 14],
               dei_dict |-> [guess |-> 20, max |-> 99],
               smoothing_factor |-> 0, fit_segment |-> "first"]
    /\ df = <<>>
    /\ t_act = <<>>
    /\ q_act = <<>>
    /\ Qi_guess = 0
    /\ attempts = <<>>
    /\ calls = <<>>
    /\ failed = <<>>
    /\ result = <<>>
    /\ aggregated = NoFrame

\* Further inputs: a time array starting below zero, and predicted rates that
\* put R2 on its limits (R2 = 0.70 for q_act = [20,20,10], q_pred = [22,16,10];
\* R2 = 0.85 for q_pred = [21,17,10]), at full length and with good parameters.
EdgeTimes == { << 0 >>, << -1 >>, << -2 >> }

QPredEdgeVals == {10, 16, 17, 20, 21, 22}

EdgeInputs ==
    { [t_act |-> t, q_act |-> q, q_pred |-> q_pred, qi_fit |-> 20, dei_fit |-> 15,
       b_fit |-> 9, def_val |-> 6] :
        t \in EdgeTimes, q \in [1..ValLen -> QActVals],
        q_pred \in [1..ValLen -> QPredEdgeVals] }

InitVal ==
    /\ op = "val"
    /\ pc = "start"
    /\ FitIdle
    /\ \E strict \in BOOLEAN :
         validator = [strict_mode |-> strict, validation_results |-> <<>>]
    /\ \/ \E t \in ValTimes, n \in 0..ValLen, par \in ValParams :
            \E q \in [1..n -> QActVals], q_pred \in [1..n -> QPredVals] :
              vin = [t_act |-> t, q_act |-> q, q_pred |-> q_pred, qi_fit |-> par.qi_fit,
                     dei_fit |-> par.dei_fit, b_fit |-> par.b_fit, def_val |-> par.def_val]
       \/ vin \in EdgeInputs
    /\ vout = NoVout
    /\ BatchIdle

\* The inputs of a validator that is called repeatedly: a good and a late
\* time array; no rates, a perfect fit, a first-point mismatch, and a fit that
\* passes with warnings; good and bad parameters.
CallTimes == { << 0 >>, << 2 >> }

CallRates ==
    { [q_act |-> <<>>, q_pred |-> <<>>],
      [q_act |-> << 20, 10 >>, q_pred |-> << 20, 10 >>],
      [q_act |-> << 20, 10 >>, q_pred |-> << 23, 10 >>],
      [q_act |-> << 20, 20, 10 >>, q_pred |-> << 22, 17, 10 >>] }

CallInputs ==
    { [t_act |-> t, q_act |-> r.q_act, q_pred |-> r.q_pred, qi_fit |-> par.qi_fit,
       dei_fit |-> par.dei_fit, b_fit |-> par.b_fit, def_val |-> par.def_val] :
        t \in CallTimes, r \in CallRates, par \in ValParams }

InitCalls ==
    /\ op = "val"
    /\ pc = "start"
    /\ FitIdle
    /\ \E strict \in BOOLEAN :
         validator = [strict_mode |-> strict, validation_results |-> <<>>]
    /\ vin \in CallInputs
    /\ vout = NoVout
    /\ BatchIdle

\* The caller, done with one call, makes the next one on the same validator.
NextCall ==
    /\ op = "val"
    /\ pc = "done"
    /\ vin' \in CallInputs
    /\ vout' = NoVout
    /\ pc' = "start"
    /\ UNCHANGED << op, fitvars, validator, batchvars >>

\* One call of validate_fit on the validator.
ValidateFit ==
    /\ op = "val"
    /\ pc = "start"
    /\ LET o == validate_fit(validator, vin)
       IN /\ vout' = [kind |-> o.kind, passed |-> o.passed, results |-> o.results,
                      report |-> o.report, carried |-> o.carried]
          /\ validator' = [validator EXCEPT !.validation_results = o.validation_results]
    /\ pc' = "done"
    /\ UNCHANGED << op, fitvars, vin, batchvars >>

\* ------------------------------------------------ main and Run Analysis
\* Longest well list of a batch run.
MaxWells == 3

\* The measures get_well_production accepts.
ValidMeasures == { "OIL", "GAS", "WATER" }

\* The entries a well list is made of; the loader does not check the
\* Measure column of a well list, so one entry carries an unknown measure.
BatchEntries ==
    { [WellID |-> 1, Measure |-> "OIL"], [WellID |-> 2, Measure |-> "OIL"],
      [WellID |-> 2, Measure |-> "GAS"], [WellID |-> 1, Measure |-> "NGL"] }

\* The production table of a batch run: at most one record per well, measure
\* and day, some of them with no production.
BatchRecords ==
    { [WellID |-> 1, Measure |-> "OIL", Date |-> 0, Value |-> 4 * Scale],
      [WellID |-> 1, Measure |-> "OIL", Date |-> 31, Value |-> 2 * Scale],
      [WellID |-> 1, Measure |-> "OIL", Date |-> 61, Value |-> 2 * Scale],
      [WellID |-> 2, Measure |-> "OIL", Date |-> 0, Value |-> 0],
      [WellID |-> 2, Measure |-> "OIL", Date |-> 31, Value |-> 4 * Scale],
      [WellID |-> 2, Measure |-> "GAS", Date |-> 0, Value |-> 0] }

\* The columns of a row that identify it: WellID, Measure, fit_months, fit_type.
BatchRow(wellid, measure, fit_months, fit_type) ==
    [WellID |-> wellid, Measure |-> measure, fit_months |-> fit_months,
     fit_type |-> fit_type]

\* The fit types fit_arps_curve may end with for n points starting at rate qi.
FitTypes(qi, n, phase) ==
    IF UseAutoFit3(qi, n, phase) THEN { "auto_fit_3" }
    ELSE IF UseAutoFit2(n) THEN { "auto_fit_2", "auto_fit_3" }
    ELSE { "auto_fit_1", "auto_fit_2", "auto_fit_3" }

\* process_well_csv: what one list entry may come to.  An unknown measure
\* makes get_well_production raise ValueError; no record at all gives the
\* 'no_data' row; records of which none has production make fit_arps_curve
\* raise IndexError; otherwise fit_arps_curve returns a row.
process_well_csv(wellid, measure) ==
    LET prod_df == { r \in df : r.WellID = wellid /\ r.Measure = measure }
        selected == { r \in prod_df : r.Value > 0 }
        first == CHOOSE r \in selected : \A x \in selected : r.Date <= x.Date
    IN IF measure \notin ValidMeasures
       THEN { [raised |-> TRUE, row |-> <<>>] }
       ELSE IF prod_df = {}
       THEN { [raised |-> FALSE, row |-> << BatchRow(wellid, measure, 0, "no_data") >>] }
       ELSE IF selected = {}
       THEN { [raised |-> TRUE, row |-> <<>>] }
       ELSE { [raised |-> FALSE,
               row |-> << BatchRow(wellid, measure, Cardinality(selected), ft) >>] :
                ft \in FitTypes(first.Value, Cardinality(selected), measure) }

\* One pass of "for idx, row in well_list_df.iterrows()": the row is appended
\* to the results, or the except clause reports the error and continues.
LoopStep ==
    /\ idx < Len(well_list_df)
    /\ idx' = idx + 1
    /\ \E o \in process_well_csv(well_list_df[idx + 1].WellID, well_list_df[idx + 1].Measure) :
         IF o.raised
         THEN /\ failed' = Append(failed, well_list_df[idx + 1])
              /\ UNCHANGED results_list
         ELSE /\ results_list' = Append(results_list, o.row[1])
              /\ UNCHANGED failed
    /\ UNCHANGED << op, pc, args, df, t_act, q_act, Qi_guess, attempts, calls, result,
                    aggregated, valvars, well_list_df >>

\* main's loop, lines 573-590.
MainStep == op = "main" /\ LoopStep

\* Run Analysis, individual wells: lines 906-930 of the app.
RunWellsStep == op = "run_wells" /\ LoopStep

\* The parameters of fit_aggregate_arps_curve, and those with no default.
AggregateParams ==
    { "measure", "b_dict", "dei_dict", "def_dict", "min_q_dict", "prod_df_all_wells",
      "value_col", "method", "trials", "smoothing_factor" }

AggregateRequired ==
    { "measure", "b_dict", "dei_dict", "def_dict", "min_q_dict", "prod_df_all_wells",
      "value_col" }

\* The keyword arguments of Run Analysis's call.
RunAnalysisKeywords ==
    { "prod_df_all_wells", "measure", "value_col", "dei_dict", "def_dict", "b_dict",
      "method", "trials", "smoothing_factor", "time_normalize", "debug_output" }

\* Python's argument binding: an unexpected keyword, or a missing required
\* argument, raises TypeError before the function body runs.
CallRaisesTypeError(keywords) ==
    \/ keywords \ AggregateParams # {}
    \/ AggregateRequired \ keywords # {}

\* well_list_df['Measure'].unique(): the measures in order of first appearance.
RECURSIVE Unique(_)
Unique(s) ==
    IF Len(s) = 0 THEN <<>>
    ELSE LET front == Unique(SubSeq(s, 1, Len(s) - 1))
         IN IF s[Len(s)] \in { front[i] : i \in 1..Len(front) }
            THEN front ELSE Append(front, s[Len(s)])

measures == Unique([i \in 1..Len(well_list_df) |-> well_list_df[i].Measure])

\* Run Analysis, aggregate: one pass of "for measure in measures", lines
\* 867-897 of the app.  The call is inside a try; a row and the measure's
\* series are kept only when a row comes back.
RunAggregateStep ==
    /\ op = "run_aggregate"
    /\ idx < Len(measures)
    /\ idx' = idx + 1
    /\ LET measure == measures[idx + 1]
           rows == AggFilter(df, measure)
       IN IF CallRaisesTypeError(RunAnalysisKeywords)
          THEN /\ failed' = Append(failed, measure)
               /\ UNCHANGED << results_list, aggregated >>
          ELSE IF rows = {}
          THEN UNCHANGED << failed, results_list, aggregated >>
          ELSE IF Len(Aggregate(rows).months_from_start) < MinBuckets
          THEN UNCHANGED << failed, results_list, aggregated >>
          ELSE \E out \in OptOutcomes :
                 IF Unpacks2(out)
                 THEN /\ results_list' =
                            Append(results_list,
                                   BatchRow("AGGREGATE", measure,
                                            Len(Aggregate(rows).months_from_start),
                                            "aggregate_fit"))
                      /\ aggregated' = [Aggregate(rows) EXCEPT !.predicted = TRUE]
                      /\ UNCHANGED failed
                 ELSE UNCHANGED << failed, results_list, aggregated >>
    /\ UNCHANGED << op, pc, args, df, t_act, q_act, Qi_guess, attempts, calls, result,
                    valvars, well_list_df >>

\* The start of a batch run: the production table, the well list, and for
\* the aggregate analysis the "Time-Normalize Wells" checkbox.
InitBatch ==
    /\ op \in { "main", "run_wells", "run_aggregate" }
    /\ pc = "loop"
    /\ \E time_normalize \in BOOLEAN :
         /\ op # "run_aggregate" => ~time_normalize
         /\ args = [time_normalize |-> time_normalize]
    /\ df \in SUBSET BatchRecords
    /\ well_list_df \in SeqsUpTo(BatchEntries, MaxWells)
    /\ idx = 0
    /\ results_list = <<>>
    /\ t_act = <<>>
    /\ q_act = <<>>
    /\ Qi_guess = 0
    /\ attempts = <<>>
    /\ calls = <<>>
    /\ failed = <<>>
    /\ result = <<>>
    /\ aggregated = NoFrame
    /\ ValIdle

\* ------------------------------------------------------- create_b_dict
\* The defaults min_b=0.5 and max_b=1.4, in thousandths.
min_b == 500

max_b == 1400

\* pd.notnull / pd.isnull
notnull(x) == x # NaN

\* create_b_dict(b_low, b_avg, b_high), every value in thousandths, so that
\* b_low * 1.1 and the midpoint are whole numbers and round(., 4) changes
\* nothing.
create_b_dict(b_low_in, b_avg_in, b_high_in) ==
    LET b_low == Max2(IF notnull(b_low_in) THEN b_low_in ELSE min_b, min_b)
        b_high == Min2(Max2(IF notnull(b_high_in) THEN b_high_in ELSE max_b,
                            (b_low * 11) \div 10),
                       max_b)
        b_avg == IF ~notnull(b_avg_in) \/ b_avg_in < b_low \/ b_avg_in > b_high
                 THEN (b_low + b_high) \div 2
                 ELSE b_avg_in
    IN [min |-> b_low, guess |-> b_avg, max |-> b_high]

\* The estimates handed to create_b_dict: undefined, below, inside and above
\* the global range (multiples of 0.1, in thousandths).
BEstimates == { NaN, 300, 500, 900, 1400, 1500, 2000 }

InitBDict ==
    /\ op = "b_dict"
    /\ pc = "start"
    /\ \E lo \in BEstimates, avg \in BEstimates, hi \in BEstimates :
         args = [b_low |-> lo, b_avg |-> avg, b_high |-> hi]
    /\ df = <<>>
    /\ t_act = <<>>
    /\ q_act = <<>>
    /\ Qi_guess = 0
    /\ attempts = <<>>
    /\ calls = <<>>
    /\ failed = <<>>
    /\ result = <<>>
    /\ aggregated = NoFrame
    /\ ValIdle
    /\ BatchIdle

\* The call: result holds the dict returned.
CreateBDict ==
    /\ op = "b_dict"
    /\ pc = "start"
    /\ result' = << create_b_dict(args.b_low, args.b_avg, args.b_high) >>
    /\ pc' = "done"
    /\ UNCHANGED << op, args, df, t_act, q_act, Qi_guess, attempts, calls, failed,
                    aggregated, valvars, batchvars >>

\* ---------------------------------------------------- segment selection
\* min_length of fit_arps_curve.
min_length == 12

\* The longest series and the most segments looked at.
MaxSeries == 14

MaxSegments == 4

\* The segment column: contiguous stretches of the date-ordered series carry
\* increasing integer ids, starting at 0.
RECURSIVE SegmentLabels(_)
SegmentLabels(n) ==
    IF n = 0 THEN { <<>> }
    ELSE IF n = 1 THEN { << 0 >> }
    ELSE UNION { { Append(s, s[n - 1] + step) :
                     step \in { i \in { 0, 1 } : s[n - 1] + i < MaxSegments } } :
                 s \in SegmentLabels(n - 1) }

\* df[df['segment'] == seg]
SegmentRows(frame, seg) == SelectSeq(frame, LAMBDA r : r.segment = seg)

\* sorted(df['segment'].unique())
unique_segments(frame) == SortedSeq({ frame[i].segment : i \in 1..Len(frame) })

\* The 'last' loop putting the earlier segment after the rows already chosen.
RECURSIVE AbsorbLast_Appended(_, _, _)
AbsorbLast_Appended(frame, segment_index, df_selected) ==
    IF Len(df_selected) < min_length /\ segment_index - 1 >= 1
    THEN AbsorbLast_Appended(frame, segment_index - 1,
                    df_selected \o SegmentRows(frame, unique_segments(frame)[segment_index - 1]))
    ELSE df_selected

\* The while loop of 'first': absorb the next segment while the selection is
\* short and a segment is left (segment_index counts from 1 here).
RECURSIVE AbsorbFirst(_, _, _)
AbsorbFirst(frame, segment_index, df_selected) ==
    IF Len(df_selected) < min_length /\ segment_index + 1 <= Len(unique_segments(frame))
    THEN AbsorbFirst(frame, segment_index + 1,
                     df_selected \o SegmentRows(frame, unique_segments(frame)[segment_index + 1]))
    ELSE df_selected

\* The while loop of 'last': put the previous segment in front.
RECURSIVE AbsorbLast(_, _, _)
AbsorbLast(frame, segment_index, df_selected) ==
    IF Len(df_selected) < min_length /\ segment_index - 1 >= 1
    THEN AbsorbLast(frame, segment_index - 1,
                    SegmentRows(frame, unique_segments(frame)[segment_index - 1]) \o df_selected)
    ELSE df_selected

\* Lines 156-181: the rows kept for the fit.
SelectSegment(frame, segment_policy) ==
    IF Len(frame) <= min_length THEN frame
    ELSE LET u == unique_segments(frame)
             df_selected ==
                 IF segment_policy = "first"
                 THEN AbsorbFirst(frame, 1, SegmentRows(frame, u[1]))
                 ELSE IF segment_policy = "last"
                 THEN AbsorbLast(frame, Len(u), SegmentRows(frame, u[Len(u)]))
                 ELSE <<>>
         IN IF Len(df_selected) < min_length THEN frame ELSE df_selected

\* One well's cleaned, segmented records (all of this well and phase, every
\* rate positive, one per month) and the segment policy.
InitSegments ==
    /\ op = "segments"
    /\ pc = "start"
    /\ \E n \in 1..MaxSeries, policy \in { "first", "last", "all" } :
         \E seg \in SegmentLabels(n) :
           args = [fit_segment |-> policy,
                   prod_df_cleaned |-> [i \in 1..n |->
                       [Date |-> i - 1, Value |-> 3 * Scale, segment |-> seg[i]]]]
    /\ df = <<>>
    /\ t_act = <<>>
    /\ q_act = <<>>
    /\ Qi_guess = 0
    /\ attempts = <<>>
    /\ calls = <<>>
    /\ failed = <<>>
    /\ result = <<>>
    /\ aggregated = NoFrame
    /\ ValIdle
    /\ BatchIdle

\* Lines 146-191: filter, select the segment, and build the fitting arrays.
SelectSegmentStep ==
    /\ op = "segments"
    /\ pc = "start"
    /\ df' = SelectSegment(args.prod_df_cleaned, args.fit_segment)
    /\ t_act' = RankMin(Dates(df'))
    /\ q_act' = Values(df')
    /\ pc' = "selected"
    /\ UNCHANGED << op, args, Qi_guess, attempts, calls, failed, result,
                    aggregated, valvars, batchvars >>

\* ---------------------------------------------------------- specifications
Init == InitWell \/ InitAgg \/ InitNoData

Next ==
    \/ SelectStrategy
    \/ AutoFit1
    \/ AutoFit2
    \/ AutoFit3
    \/ AggregateBuild
    \/ AggregateFit
    \/ ProcessWellNoData

Spec == Init /\ [][Next]_vars

NextVal == ValidateFit

SpecVal == InitVal /\ [][NextVal]_vars

\* One validator used for call after call.
NextCalls == ValidateFit \/ NextCall

SpecCalls == InitCalls /\ [][NextCalls]_vars

\* The batch runs: main, and the two analyses of the app.
NextBatch == MainStep \/ RunWellsStep \/ RunAggregateStep

SpecBatch == InitBatch /\ [][NextBatch]_vars

\* The preparation of the fitting arrays, for one well and for the aggregate.
InitDates == InitWellDates \/ InitAgg

NextDates == SelectStrategy \/ AggregateBuild

SpecDates == InitDates /\ [][NextDates]_vars

\* Segment selection on its own.
SpecSegments == InitSegments /\ [][SelectSegmentStep]_vars

\* create_b_dict on its own.
NextBDict == CreateBDict

SpecBDict == InitBDict /\ [][NextBDict]_vars

\* ------------------------------------------------- properties: the cascades
IsPrefix(s, t) == Len(s) <= Len(t) /\ \A i \in 1..Len(s) : s[i] = t[i]

Range(s) == { s[i] : i \in 1..Len(s) }

\* A per-well run on a non-empty selected series.
WellRun == op = "well" /\ Len(df) >= 1

FirstRate == df[1].Value

BelowThreshold == FirstRate < min_q_dict[args.phase]

\* A fit (per-well or aggregate) has returned a row.
Returned == op \in { "well", "agg" } /\ pc = "done" /\ result # <<>>

DegenerateRow ==
    /\ Col(result, "fit_type") = "auto_fit_3"
    /\ Col(result, "Q3") = FirstRate
    /\ Col(result, "Dei") = (IF args.dei_dict.guess >= def_dict[args.phase]
                             THEN args.dei_dict.guess ELSE def_dict[args.phase])
    /\ Col(result, "b_factor") = args.b_dict.guess
    /\ Col(result, "R_squared") = NaN
    /\ Col(result, "RMSE") = NaN
    /\ Col(result, "MAE") = NaN

C2_CascadeOrder ==
    (WellRun /\ Len(df) >= 7 /\ ~BelowThreshold) =>
        /\ IsPrefix(attempts, << "auto_fit_1", "auto_fit_2", "auto_fit_3" >>)
        /\ pc # "start" => (pc = "auto_fit1" \/ Len(attempts) >= 1)
        /\ Len(calls) >= 1 =>
             /\ calls[1].config.optimize = << "Dei", "b" >>
             /\ DOMAIN calls[1].config.fixed = {"Qi", "Def"}
        /\ (pc = "auto_fit2" \/ Len(attempts) >= 2) =>
             (Len(failed) >= 1 /\ failed[1] = "auto_fit1")
        /\ (pc = "auto_fit3" \/ Len(attempts) >= 3) =>
             failed = << "auto_fit1", "auto_fit2" >>
        /\ Returned =>
             /\ Col(result, "fit_type") = attempts[Len(attempts)]
             /\ Col(result, "fit_type") = "auto_fit_2" => failed = << "auto_fit1" >>
             /\ Col(result, "fit_type") = "auto_fit_1" => failed = <<>>

C2_Witness ==
    /\ WellRun /\ Len(df) >= 7 /\ ~BelowThreshold
    /\ Returned
    /\ failed = << "auto_fit1", "auto_fit2" >>
    /\ Col(result, "fit_type") = "auto_fit_3"

\* C3: for 3 to 6 points with the first rate at or above the threshold, only
\* the single-parameter fit runs (Dei optimized; Qi at the first point, b at
\* its guess and Def fixed), never the full-optimize fit; when it raises, the
\* degenerate row is returned.
C3_SingleParameter ==
    (WellRun /\ Len(df) >= 3 /\ Len(df) <= 6 /\ ~BelowThreshold) =>
        /\ pc # "auto_fit1"
        /\ IsPrefix(attempts, << "auto_fit_2", "auto_fit_3" >>)
        /\ pc # "start" => (pc = "auto_fit2" \/ Len(attempts) >= 1)
        /\ Len(calls) <= 1
        /\ Len(calls) = 1 =>
             /\ calls[1].config.optimize = << "Dei" >>
             /\ calls[1].config.fixed =
                  [Qi |-> FirstRate, b |-> args.b_dict.guess, Def |-> def_dict[args.phase]]
        /\ Returned =>
             IF failed = <<>>
             THEN /\ Col(result, "fit_type") = "auto_fit_2"
                  /\ Col(result, "b_factor") = args.b_dict.guess
             ELSE failed = << "auto_fit2" >> /\ DegenerateRow
        /\ (pc = "done" /\ failed # <<>>) => Returned

C3_Witness ==
    /\ WellRun /\ Len(df) = 6 /\ ~BelowThreshold
    /\ Returned
    /\ failed = << "auto_fit2" >>
    /\ Col(result, "fit_type") = "auto_fit_3"
    /\ Len(calls) = 1

\* C4: Qi is never optimized: every configuration handed to the optimizer, by
\* the per-well fit and by the aggregate fit, has Qi among the fixed
\* parameters (at the first element of the fitted series) and not among the
\* optimized ones, and every returned row's fitted Qi is the first element of
\* the fitted (possibly smoothed) series, whatever the optimizer handed back.
C4_QiNeverFree ==
    /\ \A i \in 1..Len(calls) :
         /\ "Qi" \in DOMAIN calls[i].config.fixed
         /\ "Qi" \notin Range(calls[i].config.optimize)
         /\ calls[i].config.fixed.Qi = calls[i].q[1]
    /\ Returned => Col(result, "Q3") = q_act[1]

C4_Witness ==
    /\ Returned
    /\ Col(result, "fit_type") = "auto_fit_1"
    /\ args.smoothing_factor > 0
    /\ Col(result, "Dei") # Col(result, "b_factor")
    /\ q_act # Values(df)

\* C5: on a non-empty series, whatever the optimizer does, the per-well
\* cascade makes at most 3 strategy attempts and at most 2 optimizer calls,
\* runs no strategy twice, raises nothing, can always take its next step
\* until it has returned, and returns a full row.
C5_CascadeBounded ==
    WellRun =>
        /\ Len(attempts) <= 3
        /\ Len(calls) <= 2
        /\ \A i, j \in 1..Len(attempts) : i # j => attempts[i] # attempts[j]
        /\ pc # "raised"
        /\ pc # "done" => ENABLED Next
        /\ pc = "done" => Len(result) = Len(param_df_cols)

C5_Witness ==
    /\ WellRun /\ pc = "done"
    /\ Len(attempts) = 3
    /\ Len(calls) = 2
    /\ Len(result) = Len(param_df_cols)

Validated == op = "val" /\ pc = "done" /\ vout.kind # "ValueError"

ReportReturned == op = "val" /\ pc = "done" /\ vout.kind = "returned"

Report == vout.report[1]

FirstPointError == ErrorPct(vin.q_act[1], vin.q_pred[1])

R2 == R2Pct(vin.q_act, vin.q_pred)

FirstPointWarnings ==
    { "First point mismatch", "First point alignment acceptable but not ideal" }

\* The messages that report a failed test.
FailureMessages ==
    { "Time array is empty", "Time array does not start at 0", "Empty rate arrays",
      "First point mismatch", "Predicted rates increased", "Poor fit",
      "Qi must be positive", "Dei outside valid range [0, 1]",
      "b outside typical range [0, 2]", "Dei < Def", "Systematic bias detected" }

\* What test 1 puts into results['errors'] for this time array.
TimeErrors ==
    IF Len(vin.t_act) = 0 THEN << "Time array is empty" >>
    ELSE IF vin.t_act[1] > 1 \/ vin.t_act[1] < -1
    THEN << "Time array does not start at 0" >>
    ELSE <<>>

\* C7: in every returned report all six test entries are present, and
\* overall_pass is true exactly when all six entries say the test passed.
C7_OverallPassIffAllSix ==
    ReportReturned =>
        /\ \A n \in TestNames : Report.tests[n].present
        /\ Report.overall_pass <=> (\A n \in TestNames : Report.tests[n].pass)

C9_R2DecidesOverallPass ==
    ReportReturned =>
        /\ FracLt(R2, 70) => ~Report.overall_pass
        /\ (FracGt(R2, 85) /\ Increases(vin.q_pred) = {} /\ ~FracGt(FirstPointError, 5))
             => Report.overall_pass

\* C9 (amended): a returned report has overall_pass false whenever R2 < 0.70,
\* and overall_pass true whenever R2 > 0.85, no predicted rate rises, the
\* first predicted rate is within 5% of the (positive) first actual one, and
\* also the time array starts within 0.01 of zero, the parameters are
\* reasonable (Qi > 0, 0 <= Dei <= 1, 0 <= b <= 2, Dei >= Def) and the
\* residuals are unbiased (|mean| <= 0.5 std).
C9_R2AndOtherTests ==
    ReportReturned =>
        /\ FracLt(R2, 70) => ~Report.overall_pass
        /\ ( /\ FracGt(R2, 85)
             /\ Increases(vin.q_pred) = {}
             /\ vin.q_act[1] > 0
             /\ 100 * Abs(vin.q_pred[1] - vin.q_act[1]) <= 5 * vin.q_act[1]
             /\ TimeErrors = <<>>
             /\ vin.qi_fit > 0
             /\ vin.dei_fit >= 0 /\ vin.dei_fit <= 100
             /\ vin.b_fit >= 0 /\ vin.b_fit <= 20
             /\ vin.dei_fit >= vin.def_val
             /\ ~HasBias(vin.q_act, vin.q_pred) )
             => Report.overall_pass

C9_Witness ==
    /\ ReportReturned
    /\ Len(vin.q_act) = ValLen
    /\ FracGt(R2, 85)
    /\ Report.overall_pass
    /\ Report.warnings = <<>>

\* C10: the first_point_alignment test passes (its recorded flag, and its
\* result) exactly when the relative error of the first predicted rate is
\* below 15%, and one of its warnings is added exactly when that error is
\* 10% or more.
C10_FirstPointRule ==
    (Validated /\ vin.q_act[1] > 0) =>
        /\ vout.results[1].tests["first_point_alignment"].pass
             <=> FracLt(FirstPointError, 15)
        /\ vout.passed[2] <=> FracLt(FirstPointError, 15)
        /\ ~FracLt(FirstPointError, 10) <=>
             (Range(vout.results[1].warnings) \cap FirstPointWarnings # {})

\* C11: the goodness_of_fit test passes (its recorded flag, and its result)
\* exactly when R2 > 0.70, R2 being 1 - SS_res/SS_tot, or 0 when SS_tot is 0;
\* and the 'acceptable fit' note is added whenever a passing R2 is at most
\* 0.85.
C11_GoodnessOfFitRule ==
    Validated =>
        /\ vout.results[1].tests["goodness_of_fit"].pass <=> FracGt(R2, 70)
        /\ vout.passed[4] <=> FracGt(R2, 70)
        /\ (vout.passed[4] /\ ~FracGt(R2, 85)) =>
             "Acceptable fit" \in Range(vout.results[1].warnings)

\* The warnings that report a failure of tests 2 to 6.
FailureWarnings ==
    << {},
       { "First point mismatch" },
       { "Predicted rates increased" },
       { "Poor fit" },
       { "Qi must be positive", "Dei outside valid range [0, 1]",
         "b outside typical range [0, 2]", "Dei < Def" },
       { "Systematic bias detected" } >>

TimeWithinTolerance ==
    Len(vin.t_act) > 0 /\ vin.t_act[1] <= 1 /\ vin.t_act[1] >= -1

C13_Stateless ==
    [][(op = "val" /\ pc = "start") => validator' = validator]_vars

\* C13 (amended): a call of validate_fit never changes strict_mode; a call
\* that returns keeps the returned report in validation_results, in place of
\* the one kept before; a call that raises leaves validation_results as it
\* was.
C13_KeepsLastReport ==
    [][(op = "val" /\ pc = "start") =>
          /\ validator'.strict_mode = validator.strict_mode
          /\ IF vout'.kind = "returned"
             THEN validator'.validation_results = vout'.report
             ELSE validator'.validation_results = validator.validation_results]_vars

C13_Witness ==
    /\ op = "val" /\ pc = "done"
    /\ vout.kind = "ARPSValidationError"
    /\ validator.validation_results # <<>>
    /\ validator.validation_results[1].overall_pass

\* ------------------------------------- properties: validation inside the fit
FittedRow == Col(result, "fit_type") \in { "auto_fit_1", "auto_fit_2" }

\* The validator was handed the arrays of the fit and the row's parameters.
ValidatedTheRow ==
    \E q_pred \in QPredOutcomes :
        vin = FitValidatorInput(q_pred, Col(result, "Q3"), Col(result, "Dei"),
                                Col(result, "b_factor"))

\* C14: every row of fit_arps_curve that comes from a fit (auto_fit_1 or
\* auto_fit_2) was validated first, by a validator in non-strict mode that was
\* handed the fit's arrays and the row's parameters and returned a report;
\* and once the validator has run, whatever its verdict, the run is over with
\* that strategy's row: the strategy is not reported as failed and no further
\* strategy is tried.
C14_FitIsValidated ==
    /\ (op = "well" /\ Returned /\ FittedRow) =>
          /\ vout.kind = "returned"
          /\ ~validator.strict_mode
          /\ ValidatedTheRow
    /\ (op = "well" /\ vout.kind # "none") =>
          /\ vout.kind = "returned"
          /\ Returned /\ FittedRow
          /\ Col(result, "fit_type") = attempts[Len(attempts)]
          /\ Len(failed) = Len(attempts) - 1
          /\ Col(result, "Q3") = Qi_guess
          /\ << Col(result, "R_squared"), Col(result, "RMSE"), Col(result, "MAE") >> \in GofVals

C14_Witness ==
    /\ op = "well" /\ Returned
    /\ Col(result, "fit_type") = "auto_fit_1"
    /\ vout.kind = "returned"
    /\ ~vout.report[1].overall_pass
    /\ ~vout.passed[4] /\ ~vout.passed[5]
    /\ Col(result, "R_squared") = 95

\* ------------------------------------------ properties: the aggregate series
\* The rows of the measure, and their buckets.
AggRows == AggFilter(df, args.phase)

BucketOf(r) == MonthsFromStart(r.Date - MinDate(AggRows))

AggBuilt == op = "agg" /\ pc # "start" /\ aggregated.present

\* C15: in the aggregate series, well_count of every bucket is the number of
\* wells that have a record in that bucket.
C15_WellCountIsWells ==
    AggBuilt =>
        \A i \in 1..Len(aggregated.months_from_start) :
            aggregated.well_count[i] =
                Cardinality({ r.WellID : r \in { x \in AggRows :
                                  BucketOf(x) = aggregated.months_from_start[i] } })

\* The spacing of the sample data's record dates, in days.
SampleSpacing == 30

\* Every well of the rows has exactly one record on each of the days
\* 0, 30, ..., 30 * (M - 1) after the common start, and no other record.
MonthlyRecords(M) ==
    /\ AggRows # {}
    /\ \A w \in { r.WellID : r \in AggRows } :
         /\ { r.Date : r \in { x \in AggRows : x.WellID = w } } =
                { MinDate(AggRows) + SampleSpacing * k : k \in 0..(M - 1) }
         /\ Cardinality({ x \in AggRows : x.WellID = w }) = M

\* C16: when every well has one record per month for M consecutive months
\* from a common start (the 30-day spacing of the sample data), the aggregate
\* series has exactly M buckets, with month indices 0..M-1.
C16_OneBucketPerMonth ==
    AggBuilt =>
        \A M \in 1..MaxRecs :
            MonthlyRecords(M) => aggregated.months_from_start = [i \in 1..M |-> i - 1]

\* The averaged buckets of the measure: the month offsets, from the earliest
\* of them, of the records of the measure that have production.
ProducingRows == { r \in df : r.Measure = args.phase /\ r.Value > 0 }

NumBuckets ==
    Cardinality({ (100 * (r.Date - MinDate(ProducingRows))) \div 3042 : r \in ProducingRows })

AggReturned == op = "agg" /\ pc = "done"

\* C18 as stated: with fewer than 3 averaged buckets (0, 1 or 2) no fit is
\* attempted and the aggregate series is still returned.
C18_SeriesAlwaysReturned ==
    (AggReturned /\ NumBuckets < 3) =>
        /\ calls = <<>>
        /\ result = <<>>
        /\ aggregated.present

\* C18 (amended): with fewer than 3 averaged buckets no fit is attempted (no
\* optimizer call, no row); with 1 or 2 buckets the aggregate series is
\* returned, without predictions; with no bucket at all (no record of the
\* measure has production) no series is returned either.
C18_NoFitBelowThreeBuckets ==
    (op = "agg" /\ pc # "start" /\ NumBuckets < 3) =>
        /\ pc = "done"
        /\ attempts = <<>>
        /\ calls = <<>>
        /\ result = <<>>
        /\ IF NumBuckets = 0
           THEN aggregated = NoFrame
           ELSE /\ aggregated.present
                /\ Len(aggregated.months_from_start) = NumBuckets
                /\ Len(aggregated.avg_production) = NumBuckets
                /\ ~aggregated.predicted

C18_Witness ==
    /\ AggReturned
    /\ NumBuckets = 2
    /\ Cardinality(ProducingRows) >= 3
    /\ aggregated.present
    /\ result = <<>>

\* ------------------------------------------ properties: insufficient data
\* C20: for a selected series of 0, 1 or 2 points fit_arps_curve does not
\* raise: it ends by returning the degenerate row (fit_type auto_fit_3, no
\* optimizer call).
C20_InsufficientDataNotFatal ==
    (op = "well" /\ Len(df) <= 2) =>
        /\ pc # "raised"
        /\ pc \notin {"start", "auto_fit3"} =>
              /\ pc = "done"
              /\ result # <<>>
              /\ Col(result, "fit_type") = "auto_fit_3"
              /\ calls = <<>>

\* ------------------------------------------------ properties: the batch runs
\* The rows of a measure bucketed from the global minimum date, and from each
\* well's own first record.
CalendarBuckets(rows) ==
    SortedSeq({ MonthsFromStart(r.Date - MinDate(rows)) : r \in rows })

NormalizedBuckets(rows) ==
    SortedSeq({ MonthsFromStart(r.Date - MinDate({ x \in rows : x.WellID = r.WellID })) :
                  r \in rows })

\* C17: fit_aggregate_arps_curve applies the bucketing mode its caller asks
\* for: a call that names the mode, for a measure that has records with
\* production, is accepted, and the series it yields has the buckets of that
\* mode (time-normalized: offsets from each well's own first record, so that
\* every well's first record is in bucket 0; calendar: offsets from the
\* global minimum date).
C17_RequestedModeApplied ==
    (op = "run_aggregate" /\ idx >= 1 /\ AggFilter(df, measures[idx]) # {}) =>
        LET rows == AggFilter(df, measures[idx])
        IN /\ measures[idx] \notin Range(failed)
           /\ aggregated.present =>
                aggregated.months_from_start =
                    (IF args.time_normalize THEN NormalizedBuckets(rows)
                     ELSE CalendarBuckets(rows))

\* C19: the batch loop leaves exactly one row per list entry it has been
\* through, in list order, also for the entries whose processing raised.
C19_OneRowPerListEntry ==
    (op \in { "main", "run_wells" }) =>
        /\ Len(results_list) = idx
        /\ \A i \in 1..idx :
             /\ results_list[i].WellID = well_list_df[i].WellID
             /\ results_list[i].Measure = well_list_df[i].Measure

\* ------------------------------------------ properties: fit configurations
ParamNames == { "Qi", "Dei", "Def", "b" }

\* The guess and the limits the code has for an optimized parameter.
GuessOf(name) == IF name = "Dei" THEN args.dei_dict.guess ELSE args.b_dict.guess

LowerOf(name) ==
    IF name = "Dei"
    THEN (IF "min" \in DOMAIN args.dei_dict THEN args.dei_dict.min ELSE def_dict[args.phase])
    ELSE (IF args.b_dict.min <= args.b_dict.max THEN args.b_dict.min ELSE args.b_dict.max)

UpperOf(name) ==
    IF name = "Dei" THEN args.dei_dict.max
    ELSE (IF args.b_dict.min <= args.b_dict.max THEN args.b_dict.max ELSE args.b_dict.min)

\* C26: every configuration handed to the optimizer is well formed: 'optimize'
\* and 'fixed' are disjoint and together hold each of Qi, Dei, Def, b once;
\* the initial guess has one entry per optimized parameter, in the order of
\* 'optimize'; and so have the lower and the upper bounds (a pair of scalars
\* when one parameter is optimized).
C26_ConfigWellFormed ==
    \A i \in 1..Len(calls) :
        LET c == calls[i]
            opt == c.config.optimize
        IN /\ Range(opt) \cap DOMAIN c.config.fixed = {}
           /\ Range(opt) \cup DOMAIN c.config.fixed = ParamNames
           /\ Cardinality(Range(opt)) = Len(opt)
           /\ c.initial_guess = [k \in 1..Len(opt) |-> GuessOf(opt[k])]
           /\ IF Len(opt) = 1
              THEN c.bounds = << LowerOf(opt[1]), UpperOf(opt[1]) >>
              ELSE c.bounds = << [k \in 1..Len(opt) |-> LowerOf(opt[k])],
                                 [k \in 1..Len(opt) |-> UpperOf(opt[k])] >>

C26_Witness ==
    /\ op = "well" /\ Len(calls) = 2
    /\ calls[1].config.optimize = << "Dei", "b" >>
    /\ calls[2].config.optimize = << "Dei" >>
    /\ args.b_dict.min > args.b_dict.max
    /\ "min" \notin DOMAIN args.dei_dict

\* ------------------------------------------------- properties: smoothing
\* The fit has its arrays: the strategy of a well is chosen, or the aggregate
\* series has enough buckets to be fitted.
ArraysReady ==
    \/ op = "well" /\ pc \in { "auto_fit1", "auto_fit2", "auto_fit3", "done" }
    \/ op = "agg" /\ (pc = "agg_fit" \/ (pc = "done" /\ attempts # <<>>))

RawFirstRate == IF op = "well" THEN df[1].Value ELSE aggregated.avg_production[1]

\* C28: the smoothing passes leave the first element of the rate series as it
\* was: the fitted series starts at the raw first rate, and the Qi fixed after
\* smoothing is that rate, the one the threshold test was applied to.
C28_SmoothingKeepsFirstRate ==
    ArraysReady =>
        /\ q_act[1] = RawFirstRate
        /\ Qi_guess = RawFirstRate
        /\ \A i \in 1..Len(calls) : calls[i].q[1] = RawFirstRate
        /\ op = "well" =>
             (pc \in { "auto_fit1", "auto_fit2" } => RawFirstRate >= min_q_dict[args.phase])

C28_Witness ==
    /\ op = "well" /\ pc = "auto_fit1"
    /\ args.smoothing_factor = SmoothMax
    /\ q_act # Values(df)
    /\ q_act[1] = df[1].Value

\* ------------------------------------------------ properties: the fit_type tag
Metrics == << Col(result, "R_squared"), Col(result, "RMSE"), Col(result, "MAE") >>

RowPoints ==
    IF op = "well" THEN Len(df)
    ELSE IF op = "agg" THEN Len(aggregated.months_from_start) ELSE 0

\* C25: every returned row (auto_fit_1, auto_fit_2, auto_fit_3, aggregate_fit,
\* no_data) has the 14 fields of param_df_cols in their order: id, measure,
\* number of points, tag, segment policy, start date, start month, Q_guess,
\* fitted Qi, Dei, b, R2, RMSE, MAE; and Q_guess of a fitted or degenerate row
\* is the first observed rate before smoothing, on the full-optimize path and
\* its fallbacks as well.
C25_RowLayout ==
    (pc = "done" /\ result # <<>>) =>
        /\ Len(result) = 14
        /\ Len(param_df_cols) = 14
        /\ param_df_cols[4] = "fit_type" /\ param_df_cols[8] = "Q_guess"
        /\ result[1] = args.property_id
        /\ result[2] = args.phase
        /\ result[3] = RowPoints
        /\ IF op = "csv"
           THEN /\ result[4] = "no_data"
                /\ \A i \in 5..14 : result[i] = NaN
           ELSE /\ result[4] \in (IF op = "agg" THEN { "aggregate_fit" }
                                  ELSE { "auto_fit_1", "auto_fit_2", "auto_fit_3" })
                /\ result[5] = args.fit_segment
                /\ result[6] = (IF op = "agg" THEN MinDate(AggRows) ELSE df[1].Date)
                /\ result[7] = (IF op = "agg" THEN 0 ELSE 1)
                /\ result[8] = RawFirstRate
                /\ result[9] = RawFirstRate
                /\ result[10] \in OptVals \cup { args.dei_dict.guess, def_dict[args.phase] }
                /\ result[11] \in OptVals \cup { args.b_dict.guess }
                /\ << result[12], result[13], result[14] >> \in
                       GofVals \cup { << NaN, NaN, NaN >> }

C25_Witness ==
    /\ op = "well" /\ pc = "done"
    /\ args.smoothing_factor = SmoothMax
    /\ q_act # Values(df)
    /\ failed = << "auto_fit1", "auto_fit2" >>
    /\ result[4] = "auto_fit_3"
    /\ result[8] = df[1].Value

\* ------------------------------------- properties: recorded flags and outcome
\* The six tests in the order validate_fit runs them (test1_pass..test6_pass).
TestOrder ==
    << "time_starts_at_zero", "first_point_alignment", "decline_trend",
       "goodness_of_fit", "parameter_reasonableness", "residual_analysis" >>

\* C27: in every returned report the 'pass' flag recorded for a test is the
\* boolean that test handed to overall_pass, so that overall_pass is the
\* conjunction of the recorded flags, also at a first-point error of exactly
\* 15%, at R2 exactly 0.70 and for an undefined R2.
C27_FlagsAreOutcomes ==
    ReportReturned =>
        /\ \A i \in 1..Len(TestOrder) :
             /\ Report.tests[TestOrder[i]].present
             /\ Report.tests[TestOrder[i]].pass = vout.passed[i]
        /\ Report.overall_pass = (\A i \in 1..Len(TestOrder) : Report.tests[TestOrder[i]].pass)

\* ------------------------------------------ properties: the summary statistics
\* The summary of a report.
SummaryOf(report) ==
    << [overall_pass |-> report.overall_pass, num_warnings |-> Len(report.warnings),
        num_errors |-> Len(report.errors)] >>

\* C30: get_summary_stats describes the last validation that returned: it is
\* None while no report is stored, a call that returns makes it the
\* summary of the returned report, and a call that raises (ARPSValidationError
\* in strict mode, or any other error) leaves it as it was.
C30_SummaryOfLastReturned ==
    [][(op = "val" /\ pc = "start") =>
          /\ validator.validation_results = <<>> => get_summary_stats(validator) = <<>>
          /\ IF vout'.kind = "returned"
             THEN get_summary_stats(validator') = SummaryOf(vout'.report[1])
             ELSE /\ vout'.kind \in { "ARPSValidationError", "ValueError" }
                  /\ get_summary_stats(validator') = get_summary_stats(validator)]_vars

C30_Witness ==
    /\ op = "val" /\ pc = "done"
    /\ validator.strict_mode
    /\ vout.kind = "ARPSValidationError"
    /\ get_summary_stats(validator) # <<>>
    /\ get_summary_stats(validator)[1].num_warnings >= 1
    /\ get_summary_stats(validator)[1].overall_pass

\* ------------------------------------------------ properties: create_b_dict
\* C24: for every (b_low, b_avg, b_high), undefined values and estimates
\* outside the global range included, the dict returned has its bounds inside
\* [min_b, max_b] and min <= guess <= max, with guess the estimated average
\* when it lies inside [min, max] and the midpoint of the range otherwise.
C24_BDictClamped ==
    (op = "b_dict" /\ pc = "done") =>
        LET d == result[1]
        IN /\ min_b <= d.min /\ d.min <= max_b
           /\ min_b <= d.max /\ d.max <= max_b
           /\ d.min <= d.guess /\ d.guess <= d.max
           /\ d.guess = (IF args.b_avg # NaN /\ d.min <= args.b_avg /\ args.b_avg <= d.max
                         THEN args.b_avg ELSE (d.min + d.max) \div 2)

\* ---------------------------------------------- properties: the time array
\* C21: every time array about to be handed to the optimizer, by
\* fit_arps_curve or by fit_aggregate_arps_curve, starts at 0 and is strictly
\* increasing, whatever the records (records of one well sharing a date
\* included).
C21_TimesStrictlyIncreasing ==
    ((op = "well" /\ pc \in { "auto_fit1", "auto_fit2" }) \/ (op = "agg" /\ pc = "agg_fit")) =>
        /\ t_act[1] = 0
        /\ \A i \in 1..(Len(t_act) - 1) : t_act[i] < t_act[i + 1]

\* ------------------------------------------ properties: segment selection
\* The rows of frame whose segment id lies in lo..hi, in the order of frame.
SegmentRun(frame, lo, hi) == SelectSeq(frame, LAMBDA r : lo <= r.segment /\ r.segment <= hi)

Selected == op = "segments" /\ pc = "selected"

\* C23: a series of more than 12 points is cut, under 'first', to the
\* segments 0..k for the smallest k whose cumulative length reaches 12, and
\* under 'last' to the mirror run k..last; the rows kept are in date order and
\* number at least min(12, length of the series); a series of at most 12
\* points is used whole.
C23_SegmentSelection ==
    Selected =>
        LET all == args.prod_df_cleaned
            n == Len(all)
            top == all[n].segment
        IN /\ n <= min_length => df = all
           /\ (n > min_length /\ args.fit_segment = "first") =>
                \E k \in 0..top :
                    /\ df = SegmentRun(all, 0, k)
                    /\ Len(df) >= min_length
                    /\ Len(SegmentRun(all, 0, k - 1)) < min_length
           /\ (n > min_length /\ args.fit_segment = "last") =>
                \E k \in 0..top :
                    /\ df = SegmentRun(all, k, top)
                    /\ Len(df) >= min_length
                    /\ Len(SegmentRun(all, k + 1, top)) < min_length
           /\ \A i \in 1..(Len(df) - 1) : df[i].Date < df[i + 1].Date
           /\ Len(df) >= Min2(min_length, n)

\* A 'last' selection that absorbed an earlier segment and still left rows out.
C23_Witness ==
    /\ Selected
    /\ args.fit_segment = "last"
    /\ Len(args.prod_df_cleaned) > min_length
    /\ Len(df) < Len(args.prod_df_cleaned)
    /\ df[1].segment # df[Len(df)].segment

====
